---------------------------- MODULE Spec2Model ----------------------------
(***************************************************************************)
(* Model of library_proj.py: the Books record, the Books_Library store     *)
(* (load_book_library, save_book_database, add_book, delete_book,          *)
(* change_status) and the backing JSON file.                               *)
(*                                                                         *)
(* Strings of the source that are written in Cyrillic are transliterated,  *)
(* because the parser accepts ASCII only; letter case is kept:             *)
(*   "в наличии" -> "v nalichii"      "В наличии" -> "V nalichii"          *)
(*   "Выдана"    -> "Vydana"                                               *)
(***************************************************************************)
EXTENDS Integers, Sequences, FiniteSets, TLC

VARIABLES
    books,  \* self.books: the list of Books objects, in list order
    file,   \* the content of the backing file self.file_name
    pc,     \* "running": main's loop is alive; "crashed": an exception left main
    last,   \* the last call made on the store, its arguments and its outcome
    prev    \* the call made before the last one: its name, id and outcome

vars == <<books, file, pc, last, prev>>

---------------------------------------------------------------------------
(* Bounds and input domains *)

MaxBooks == 3

Ids == {"a", "b"}
Titles == {"Dune", "1984"}
Authors == {"Orwell"}
Years == {"2001"}
Tokens == {"1", "2", "0"}

---------------------------------------------------------------------------
(* String literals of the source *)

StatusNew == "v nalichii"          \* main, status of a newly added book
StatusAvailable == "V nalichii"    \* change_status, token "1"
StatusIssued == "Vydana"           \* change_status, any other token

MsgStatusChanged == "Status izmenen"
MsgBookNotFound == "Kniga ne naidena"
MsgDeleted == "Kniga uspeshno udalena"
MsgDeleteNotFound == "Oshibka: Kniga s ID ne naidena"
MsgAdded == "Kniga uspeshno dobavlena"

\* outcomes that are not return values
Unbound == "<unbound>"
UnboundLocalError == "UnboundLocalError"
TypeError == "TypeError"
Loaded == "loaded"

---------------------------------------------------------------------------
(* Books *)

FieldNames == {"id", "title", "author", "year", "status"}

Books(id, title, author, year, status) ==
    [id |-> id, title |-> title, author |-> author, year |-> year, status |-> status]

NoBook == Books("", "", "", "", "")


\* what main passes to search_book: criterion.split(", ") of a line that is
\* not empty; the empty list is what another caller may pass
CriteriaInputs ==
    { <<>>, <<"DUNE", "1984">>, <<"zzz", "">>, <<"b", "VYD">> }

\* the objects a caller passes to add_book: built as main builds them, with
\* the status of a new book; the id is the caller's (main takes uuid4's)
NewBooks ==
    {Books(i, t, a, y, StatusNew) : i \in Ids, t \in Titles, a \in Authors, y \in Years}

---------------------------------------------------------------------------
(* The backing file.  Its content is kept as the JSON document the text    *)
(* denotes: exists = FALSE is a missing file; type "garbage" is text that  *)
(* json.load cannot decode; otherwise type is the JSON type of the         *)
(* top-level value and items are what iterating it yields (the elements of *)
(* an array, the keys of an object, the characters of a string).  An item  *)
(* is                                                                      *)
(* [type, members]: members are the <<key, value>> pairs of a JSON object, *)
(* in the order they are written.                                          *)

JsonObject(members) == [type |-> "object", members |-> members]
JsonString == [type |-> "string", members |-> <<>>]
JsonNumber == [type |-> "number", members |-> <<>>]

NoFile == [exists |-> FALSE, type |-> "none", items |-> <<>>]
JsonFile(type, items) == [exists |-> TRUE, type |-> type, items |-> items]

\* keys of a decoded JSON object, and the value of a key (json.load keeps the
\* last of several members with the same key)
Keys(members) == {members[k][1] : k \in DOMAIN members}
Value(members, key) ==
    LET ks == {k \in DOMAIN members : members[k][1] = key}
        k == CHOOSE k \in ks : \A j \in ks : j <= k
    IN  members[k][2]

\* Books(**book): book must be a mapping whose keys are exactly the five
\* parameter names, whatever their order; anything else raises TypeError
CanConstruct(entry) ==
    /\ entry.type = "object"
    /\ Keys(entry.members) = FieldNames

Construct(entry) ==
    Books(Value(entry.members, "id"), Value(entry.members, "title"),
          Value(entry.members, "author"), Value(entry.members, "year"),
          Value(entry.members, "status"))

\* variant of load_book_library that builds the list back to front
load_book_library_reversed(f) ==
    IF ~f.exists \/ f.type = "garbage"
    THEN [books |-> <<>>, result |-> Loaded, diag |-> f.exists]
    ELSE IF f.type \notin {"array", "object", "string"}
            \/ \E k \in DOMAIN f.items : ~CanConstruct(f.items[k])
    THEN [books |-> <<>>, result |-> TypeError, diag |-> FALSE]
    ELSE [books |-> [k \in DOMAIN f.items |-> Construct(f.items[Len(f.items) + 1 - k])],
          result |-> Loaded, diag |-> FALSE]

\* load_book_library: the list it returns (or the exception that leaves it)
\* and whether the diagnostic was printed
load_book_library(f) ==
    IF ~f.exists
    THEN \* FileNotFoundError
         [books |-> <<>>, result |-> Loaded, diag |-> FALSE]
    ELSE IF f.type = "garbage"
    THEN \* json.JSONDecodeError
         [books |-> <<>>, result |-> Loaded, diag |-> TRUE]
    ELSE IF f.type \notin {"array", "object", "string"}
    THEN \* for book in book_data: a number, null or boolean is not iterable
         [books |-> <<>>, result |-> TypeError, diag |-> FALSE]
    ELSE IF \E k \in DOMAIN f.items : ~CanConstruct(f.items[k])
    THEN \* Books(**book) raises in the comprehension
         [books |-> <<>>, result |-> TypeError, diag |-> FALSE]
    ELSE [books |-> [k \in DOMAIN f.items |-> Construct(f.items[k])],
          result |-> Loaded, diag |-> FALSE]

\* the dict save_book_database builds for one book, keys in the order written
BookData(book) ==
    JsonObject(<< <<"id", book.id>>, <<"title", book.title>>, <<"author", book.author>>,
                  <<"year", book.year>>, <<"status", book.status>> >>)

\* variant of save_book_database that opens the file with "a": the list is
\* written after what the file held
save_book_database_append(bks, f) ==
    JsonFile("array", (IF f.exists THEN f.items ELSE <<>>)
                      \o [k \in DOMAIN bks |-> BookData(bks[k])])

\* save_book_database: open(file_name, "w") truncates, json.dump writes the list
save_book_database(bks, f) ==
    JsonFile("array", [k \in DOMAIN bks |-> BookData(bks[k])])

---------------------------------------------------------------------------
(* Operations of Books_Library.  Each operator gives the list, the file    *)
(* and the outcome the call leaves: result is the value returned (or       *)
(* printed, for add_book), or the name of the exception that leaves the    *)
(* call; saved tells whether the call ran save_book_database.              *)

Outcome(bks, f, result, saved) ==
    [books |-> bks, file |-> f, result |-> result, saved |-> saved]

\* variant of add_book that inserts the book at the front of the list
add_book_front(bks, f, book) ==
    LET inserted == <<book>> \o bks
    IN  Outcome(inserted, save_book_database(inserted, f), MsgAdded, TRUE)

\* variant of add_book that appends the book twice
add_book_twice(bks, f, book) ==
    LET appended == Append(Append(bks, book), book)
    IN  Outcome(appended, save_book_database(appended, f), MsgAdded, TRUE)

\* add_book: append, save, print the success message
add_book(bks, f, book) ==
    LET appended == Append(bks, book)
    IN  Outcome(appended, save_book_database(appended, f), MsgAdded, TRUE)

\* next((book for book in self.books if book.id == id), None): the index of
\* the first book with this id, 0 for None
FirstIndex(bks, id) ==
    IF \E k \in DOMAIN bks : bks[k].id = id
    THEN CHOOSE k \in DOMAIN bks : bks[k].id = id /\ \A j \in 1..(k - 1) : bks[j].id # id
    ELSE 0

\* variant of Remove that drops the last element of the list (list.pop())
RemoveLast(bks, k) == SubSeq(bks, 1, Len(bks) - 1)

\* variant of Remove that drops every book with the id of the one found
RemoveAll(bks, k) == SelectSeq(bks, LAMBDA b : b.id # bks[k].id)

\* list.remove(x) for the object found at index k: Books defines no __eq__,
\* so the first element equal to x is x itself
Remove(bks, k) == [j \in 1..(Len(bks) - 1) |-> IF j < k THEN bks[j] ELSE bks[j + 1]]

\* variant of delete_book that saves before it looks the id up
delete_book_saves_first(bks, f, id_delete) ==
    LET k == FirstIndex(bks, id_delete)
    IN  IF k = 0
        THEN Outcome(bks, save_book_database(bks, f), MsgDeleteNotFound, TRUE)
        ELSE LET removed == Remove(bks, k)
             IN  Outcome(removed, save_book_database(removed, f), MsgDeleted, TRUE)

\* delete_book
delete_book(bks, f, id_delete) ==
    LET k == FirstIndex(bks, id_delete)
    IN  IF k = 0
        THEN Outcome(bks, f, MsgDeleteNotFound, FALSE)
        ELSE LET removed == Remove(bks, k)
             IN  Outcome(removed, save_book_database(removed, f), MsgDeleted, TRUE)

\* variant of NewStatus that tests for "2" instead of "1"
NewStatusTestsTwo(new_status) == IF new_status = "2" THEN StatusIssued ELSE StatusAvailable

\* the status change_status writes for a token
NewStatus(new_status) == IF new_status = "1" THEN StatusAvailable ELSE StatusIssued

\* variant of the loop that returns at the first book with another id
ChangeStatusLoopFirstOnly(bks, f, id, new_status, k, result) ==
    IF k > Len(bks)
    THEN Outcome(bks, f, result, FALSE)
    ELSE IF bks[k].id = id
    THEN LET changed == [bks EXCEPT ![k].status = NewStatus(new_status)]
         IN  Outcome(changed, save_book_database(changed, f), MsgStatusChanged, TRUE)
    ELSE Outcome(bks, f, MsgBookNotFound, FALSE)

\* variant of the loop without the break: every book with the id is changed
ChangeStatusLoopNoBreak(bks, f, id, new_status, k, result) ==
    IF \E j \in DOMAIN bks : bks[j].id = id
    THEN LET changed == [j \in DOMAIN bks |->
                            IF bks[j].id = id
                            THEN [bks[j] EXCEPT !.status = NewStatus(new_status)]
                            ELSE bks[j]]
         IN  Outcome(changed, save_book_database(changed, f), MsgStatusChanged, TRUE)
    ELSE Outcome(bks, f, IF bks = <<>> THEN result ELSE MsgBookNotFound, FALSE)

\* the for loop of change_status from index k on; result is the local
\* variable of that name, Unbound until the loop assigns it
RECURSIVE ChangeStatusLoop(_, _, _, _, _, _)
ChangeStatusLoop(bks, f, id, new_status, k, result) ==
    IF k > Len(bks)
    THEN Outcome(bks, f, result, FALSE)
    ELSE IF bks[k].id = id
    THEN LET changed == [bks EXCEPT ![k].status = NewStatus(new_status)]
         IN  \* break
             Outcome(changed, save_book_database(changed, f), MsgStatusChanged, TRUE)
    ELSE ChangeStatusLoop(bks, f, id, new_status, k + 1, MsgBookNotFound)

\* change_status: return result raises UnboundLocalError when the loop body
\* never ran
change_status(bks, f, id, new_status) ==
    LET out == ChangeStatusLoop(bks, f, id, new_status, 1, Unbound)
    IN  IF out.result = Unbound
        THEN Outcome(out.books, out.file, UnboundLocalError, FALSE)
        ELSE out

\* variant of show_all_books that leaves out the books that are issued
show_all_books_in_stock(bks) == SelectSeq(bks, LAMBDA b : b.status # StatusIssued)

\* show_all_books: the list itself
show_all_books(bks) == bks

\* str.lower() on the letters the model's strings are made of
UpperCase == "ABCDEFGHIJKLMNOPQRSTUVWXYZ"
LowerCase == "abcdefghijklmnopqrstuvwxyz"
LowerPairs == {<<SubSeq(UpperCase, n, n), SubSeq(LowerCase, n, n)>> : n \in 1..Len(UpperCase)}
LowerChar(c) ==
    IF \E p \in LowerPairs : p[1] = c
    THEN (CHOOSE p \in LowerPairs : p[1] = c)[2]
    ELSE c

RECURSIVE LowerByChar(_)
LowerByChar(str) ==
    IF str = ""
    THEN ""
    ELSE LowerChar(SubSeq(str, 1, 1)) \o LowerByChar(SubSeq(str, 2, Len(str)))

\* str.lower(): LowerByChar, computed once for the strings that the books
\* and the criteria of the model are made of
Vocabulary ==
    Ids \cup Titles \cup Authors \cup Years
        \cup {StatusNew, StatusAvailable, StatusIssued, "spisana"}
        \cup UNION {{criterion[n] : n \in DOMAIN criterion} : criterion \in CriteriaInputs}
LowerTable == [str \in Vocabulary |-> LowerByChar(str)]
Lower(str) == IF str \in Vocabulary THEN LowerTable[str] ELSE LowerByChar(str)

\* variant of In for which the empty string occurs nowhere
InNotEmpty(sub, str) ==
    /\ sub # ""
    /\ \E n \in 0..(Len(str) - Len(sub)) : SubSeq(str, n + 1, n + Len(sub)) = sub

\* sub in str
In(sub, str) ==
    \E n \in 0..(Len(str) - Len(sub)) : SubSeq(str, n + 1, n + Len(sub)) = sub

\* any(crit.lower() in value.lower() for value in vars(book).values())
Matches(crit, book) ==
    \E name \in FieldNames : In(Lower(crit), Lower(book[name]))

\* variant of the loop that keeps the books matching every criterion
SearchLoopEvery(bks, criterion, n, results) ==
    IF criterion = <<>>
    THEN {}
    ELSE {k \in DOMAIN bks : \A m \in DOMAIN criterion : Matches(criterion[m], bks[k])}

\* the for loop of search_book from criterion n on: results.update(result)
\* adds the books that match crit; a book is in the set once, being one
\* object (Books defines no __hash__ or __eq__).  A book is named by its
\* index in the list.
RECURSIVE SearchLoop(_, _, _, _)
SearchLoop(bks, criterion, n, results) ==
    IF n > Len(criterion)
    THEN results
    ELSE LET result == {k \in DOMAIN bks : Matches(criterion[n], bks[k])}
         IN  SearchLoop(bks, criterion, n + 1, results \cup result)

\* search_book
search_book(bks, criterion) == SearchLoop(bks, criterion, 1, {})

---------------------------------------------------------------------------
(* Contents the backing file may have when the program starts *)

\* a file written by an earlier run or by hand: members in another order, a
\* status of neither kind, two entries with one id
FileTwoBooks ==
    JsonFile("array",
        << JsonObject(<< <<"status", StatusIssued>>, <<"id", "a">>, <<"title", "Dune">>,
                         <<"author", "Orwell">>, <<"year", "2001">> >>),
           JsonObject(<< <<"id", "a">>, <<"title", "1984">>, <<"author", "Orwell">>,
                         <<"year", "2001">>, <<"status", "spisana">> >>) >>)
FileEmptyList == JsonFile("array", <<>>)
FileGarbage == JsonFile("garbage", <<>>)
FileNumber == JsonFile("number", <<>>)
FileEmptyObject == JsonFile("object", <<>>)
FileObject == JsonFile("object", <<JsonString>>)
FileListOfNumbers == JsonFile("array", <<JsonNumber>>)
FileMissingField ==
    JsonFile("array",
        << JsonObject(<< <<"id", "a">>, <<"title", "Dune">>, <<"author", "Orwell">>,
                         <<"year", "2001">> >>) >>)
FileExtraField ==
    JsonFile("array",
        << JsonObject(<< <<"id", "b">>, <<"title", "Dune">>, <<"author", "Orwell">>,
                         <<"year", "2001">>, <<"status", StatusNew>>,
                         <<"pages", "412">> >>) >>)

WellFormedFiles == {FileTwoBooks, FileEmptyList}
UndecodableFiles == {FileGarbage}
MisshapenFiles ==
    {FileNumber, FileObject, FileListOfNumbers, FileMissingField, FileExtraField}
InitialFiles ==
    {NoFile, FileEmptyObject} \cup WellFormedFiles \cup UndecodableFiles \cup MisshapenFiles

---------------------------------------------------------------------------
(* The state machine: main's loop calling the store, and process restarts *)

\* criterion and found are the argument and the result of a search, listed
\* is the result of show_all_books
Call(op, id, token, book, result, diag, saved) ==
    [op |-> op, id |-> id, token |-> token, book |-> book, result |-> result,
     diag |-> diag, saved |-> saved, criterion |-> <<>>, found |-> {}, listed |-> <<>>]

\* what prev keeps of a call
Brief(call) == [op |-> call.op, id |-> call.id, result |-> call.result, diag |-> call.diag]
NoCall == [op |-> "", id |-> "", result |-> "", diag |-> FALSE]

Raised(result) == result \in {UnboundLocalError, TypeError}

\* Books_Library(): self.books = self.load_book_library(); an exception
\* leaves the constructor and main
Construction(f) ==
    LET out == load_book_library(f)
    IN  /\ books' = out.books
        /\ pc' = IF Raised(out.result) THEN "crashed" ELSE "running"
        /\ last' = Call("load", "", "", NoBook, out.result, out.diag, FALSE)
        /\ prev' = Brief(last)

Init ==
    \E f \in InitialFiles :
        LET out == load_book_library(f)
        IN  /\ file = f
            /\ books = out.books
            /\ pc = IF Raised(out.result) THEN "crashed" ELSE "running"
            /\ last = Call("load", "", "", NoBook, out.result, out.diag, FALSE)
            /\ prev = NoCall

\* the state a call leaves
Returns(op, id, token, book, out) ==
    /\ books' = out.books
    /\ file' = out.file
    /\ pc' = IF Raised(out.result) THEN "crashed" ELSE "running"
    /\ last' = Call(op, id, token, book, out.result, FALSE, out.saved)
    /\ prev' = Brief(last)

AddBook ==
    /\ pc = "running"
    /\ Len(books) < MaxBooks
    /\ \E book \in NewBooks :
           Returns("add", book.id, "", book, add_book(books, file, book))

DeleteBook ==
    /\ pc = "running"
    /\ \E id_delete \in Ids :
           Returns("delete", id_delete, "", NoBook, delete_book(books, file, id_delete))

ChangeStatus ==
    /\ pc = "running"
    /\ \E id \in Ids, new_status \in Tokens :
           Returns("change_status", id, new_status, NoBook,
                   change_status(books, file, id, new_status))

Returned == "returned"

\* variant of SearchBook that saves the list after the search
SearchBookSaves ==
    /\ pc = "running"
    /\ \E criterion \in CriteriaInputs :
           last' = [Call("search", "", "", NoBook, Returned, FALSE, FALSE)
                       EXCEPT !.criterion = criterion,
                              !.found = search_book(books, criterion)]
    /\ prev' = Brief(last)
    /\ file' = save_book_database(books, file)
    /\ UNCHANGED <<books, pc>>

SearchBook ==
    /\ pc = "running"
    /\ \E criterion \in CriteriaInputs :
           last' = [Call("search", "", "", NoBook, Returned, FALSE, FALSE)
                       EXCEPT !.criterion = criterion,
                              !.found = search_book(books, criterion)]
    /\ prev' = Brief(last)
    /\ UNCHANGED <<books, file, pc>>

ShowAllBooks ==
    /\ pc = "running"
    /\ last' = [Call("list", "", "", NoBook, Returned, FALSE, FALSE)
                   EXCEPT !.listed = show_all_books(books)]
    /\ prev' = Brief(last)
    /\ UNCHANGED <<books, file, pc>>

\* the process ends (or has crashed) and the program is started again on the
\* same file
Restart ==
    /\ Construction(file)
    /\ UNCHANGED file

Next == AddBook \/ DeleteBook \/ ChangeStatus \/ SearchBook \/ ShowAllBooks \/ Restart

Spec == Init /\ [][Next]_vars

---------------------------------------------------------------------------
(* Properties.  A step of the store is recognised by the call it records   *)
(* in last'; the unprimed variables are the state the call started in.     *)

Carries(bks, id) == \E k \in DOMAIN bks : bks[k].id = id
CarriedOnce(bks, id) == Cardinality({k \in DOMAIN bks : bks[k].id = id}) = 1

\* the first position of id in bks, for an id that bks carries
First(bks, id) == CHOOSE k \in DOMAIN bks : bks[k].id = id /\ \A j \in 1..(k - 1) : bks[j].id # id

\* the file holds exactly the list bks: an array of as many objects, in the
\* same order, each with the five fields and the values of its book
FileHolds(f, bks) ==
    /\ f.exists
    /\ f.type = "array"
    /\ Len(f.items) = Len(bks)
    /\ \A k \in DOMAIN bks :
          /\ f.items[k].type = "object"
          /\ Len(f.items[k].members) = 5
          /\ \A n \in FieldNames : <<n, bks[k][n]>> \in {f.items[k].members[m] : m \in 1..5}

StatusFor(token) == IF token = "1" THEN StatusAvailable ELSE StatusIssued

\* C1: change_status with an id that no record carries returns the
\* not-found message without raising, for every store including the empty
\* one, leaves the list unchanged and does not write the file.
C1_NotFoundNeverRaises ==
    [][(last'.op = "change_status" /\ ~Carries(books, last'.id))
        => /\ last'.result = MsgBookNotFound
           /\ pc' = "running"
           /\ books' = books
           /\ file' = file /\ ~last'.saved]_vars

\* C2: change_status returns the not-found message only when no record of
\* the whole list has the id; when a record with the id exists at any index
\* the call returns the success message and the status of the first such
\* record is the one the token stands for.
C2_NotFoundOnlyAfterWholeScan ==
    [][last'.op = "change_status"
        => /\ last'.result = MsgBookNotFound => ~Carries(books, last'.id)
           /\ Carries(books, last'.id)
                => /\ last'.result = MsgStatusChanged
                   /\ Len(books') = Len(books)
                   /\ books'[First(books, last'.id)].id = last'.id
                   /\ books'[First(books, last'.id)].status = StatusFor(last'.token)]_vars

\* C2 witness: the status of the last of three books was changed, the two
\* books before it having another id
C2_Witness ==
    /\ last.op = "change_status" /\ last.result = MsgStatusChanged
    /\ Len(books) = 3
    /\ books[1].id # last.id /\ books[2].id # last.id /\ books[3].id = last.id
    /\ books[3].status = StatusFor(last.token)

\* C3: when add_book, a successful delete_book or a successful
\* change_status has returned, the file holds exactly the list in memory:
\* as many records, in the same order, with the same five values each
\* (what the file held before is gone).
C3_FileHoldsListAfterMutation ==
    (\/ last.op = "add"
     \/ last.op = "delete" /\ last.result = MsgDeleted
     \/ last.op = "change_status" /\ last.result = MsgStatusChanged)
        => last.saved /\ FileHolds(file, books)

\* C3 witness: a delete has left two books, so the file that held three
\* records was replaced by one of two
C3_Witness ==
    /\ last.op = "delete" /\ last.result = MsgDeleted
    /\ Len(books) = 2
    /\ FileHolds(file, books)

\* C4: for an id that a record carries, change_status(id, "1") leaves the
\* first such record with the available status and any other token leaves
\* it with the issued status; the call returns the success message and the
\* file holds the new status when it returns.
C4_TokenDecidesStatus ==
    [][(last'.op = "change_status" /\ Carries(books, last'.id))
        => LET k == First(books, last'.id)
           IN  /\ last'.result = MsgStatusChanged
               /\ books'[k].status = (IF last'.token = "1" THEN "V nalichii" ELSE "Vydana")
               /\ books'[k].id = last'.id
               /\ file'.exists /\ file'.type = "array" /\ k \in DOMAIN file'.items
               /\ <<"status", books'[k].status>>
                      \in {file'.items[k].members[m] : m \in DOMAIN file'.items[k].members}
               /\ <<"id", last'.id>>
                      \in {file'.items[k].members[m] : m \in DOMAIN file'.items[k].members}]_vars

\* C4 witness: a token that is neither "1" nor "2" has issued the second
\* book of the list, and the file says so
C4_Witness ==
    /\ last.op = "change_status" /\ last.token = "0" /\ last.result = MsgStatusChanged
    /\ Len(books) >= 2
    /\ books[1].id # last.id /\ books[2].id = last.id
    /\ books[2].status = StatusIssued
    /\ FileHolds(file, books)

\* C5: delete_book with an id that no record carries returns the not-found
\* result, leaves the list unchanged and does not write the file, for every
\* store including the empty one.
C5_DeleteAbsentChangesNothing ==
    [][(last'.op = "delete" /\ ~Carries(books, last'.id))
        => /\ last'.result = MsgDeleteNotFound
           /\ pc' = "running"
           /\ books' = books
           /\ file' = file /\ ~last'.saved]_vars

\* C5 witness: a delete was refused on a store that holds books and whose
\* file is not, text for text, what a save would write
C5_Witness ==
    /\ last.op = "delete" /\ last.result = MsgDeleteNotFound
    /\ Len(books) > 0
    /\ ~Carries(books, last.id)
    /\ file # save_book_database(books, file)

\* C6: delete_book with an id that a record carries removes exactly the
\* first record with that id: the list is one shorter, every other record
\* (a later one with the same id too) stays as it was and in its order, the
\* result is success and the file is rewritten.
C6_DeleteRemovesFirstMatch ==
    [][(last'.op = "delete" /\ Carries(books, last'.id))
        => LET k == First(books, last'.id)
           IN  /\ last'.result = MsgDeleted
               /\ Len(books') = Len(books) - 1
               /\ \A j \in 1..(k - 1) : books'[j] = books[j]
               /\ \A j \in k..(Len(books) - 1) : books'[j] = books[j + 1]
               /\ last'.saved /\ FileHolds(file', books')]_vars

\* C6 witness: a delete succeeded and a later record with the same id is
\* still in the list
C6_Witness ==
    /\ last.op = "delete" /\ last.result = MsgDeleted
    /\ Carries(books, last.id)

\* C7 as stated: for an id that a record carries, delete_book(id) called
\* twice in a row succeeds the first time and returns not-found the second
\* time, the second call changing neither the list nor the file.
C7_SecondDeleteNotFound ==
    [][/\ (last'.op = "delete" /\ Carries(books, last'.id))
            => last'.result = MsgDeleted
       /\ (last.op = "delete" /\ last.result = MsgDeleted
           /\ last'.op = "delete" /\ last'.id = last.id)
            => /\ last'.result = MsgDeleteNotFound
               /\ books' = books
               /\ file' = file /\ ~last'.saved]_vars

\* C7 amended: for an id that exactly one record carries, delete_book(id)
\* succeeds and leaves no record with the id; and when delete_book(id) has
\* succeeded and left no record with the id, the next delete_book(id)
\* returns not-found and changes neither the list nor the file.
C7_SecondDeleteNotFoundWhenCarriedOnce ==
    [][/\ (last'.op = "delete" /\ CarriedOnce(books, last'.id))
            => /\ last'.result = MsgDeleted
               /\ ~Carries(books', last'.id)
       /\ (last.op = "delete" /\ last.result = MsgDeleted /\ ~Carries(books, last.id)
           /\ last'.op = "delete" /\ last'.id = last.id)
            => /\ last'.result = MsgDeleteNotFound
               /\ books' = books
               /\ file' = file /\ ~last'.saved]_vars

\* C7 witness: of two deletes of one id in a row the first succeeded and
\* the second was refused, other books being in the list
C7_Witness ==
    /\ prev.op = "delete" /\ prev.result = MsgDeleted
    /\ last.op = "delete" /\ last.result = MsgDeleteNotFound
    /\ last.id = prev.id
    /\ Len(books) >= 2
    /\ FileHolds(file, books)

\* C8: an add_book step leaves the list it found with the book appended as
\* last element, every earlier record at its position; and a store
\* constructed on the file right after an add lists a record with the five
\* values of the added book.
C8_AddAppendsAndSurvivesRestart ==
    [][/\ last'.op = "add"
            => /\ Len(books') = Len(books) + 1
               /\ books'[Len(books')] = last'.book
               /\ \A k \in DOMAIN books : books'[k] = books[k]
       /\ (last.op = "add" /\ last'.op = "load")
            => /\ last'.result = Loaded
               /\ \E k \in DOMAIN books' : books'[k] = last.book]_vars

\* C8 witness: a third book was added behind two others
C8_Witness ==
    /\ last.op = "add"
    /\ Len(books) = 3
    /\ books[3] = last.book
    /\ books[1] # last.book /\ books[2] # last.book

\* C9: a load that follows a save yields the saved records, field by field,
\* in the same order and with the same multiplicity: a store constructed
\* right after a call that saved holds the list that call left.
C9_SaveThenLoad ==
    [][(last.saved /\ last'.op = "load")
        => /\ last'.result = Loaded /\ ~last'.diag
           /\ books' = books]_vars

\* C9 witness: a load after an add has produced three records of which two
\* differ and two are equal in all five fields
C9_Witness ==
    /\ prev.op = "add"
    /\ last.op = "load" /\ last.result = Loaded
    /\ Len(books) = 3
    /\ \E j, k \in 1..3 : j < k /\ books[j] = books[k]
    /\ \E j, k \in 1..3 : books[j] # books[k]

\* what the file must be for the constructor to list its records: a
\* sequence of mappings with exactly the five fields
ValidContent(f) ==
    /\ f.exists
    /\ f.type = "array"
    /\ \A k \in DOMAIN f.items :
          /\ f.items[k].type = "object"
          /\ {f.items[k].members[m][1] : m \in DOMAIN f.items[k].members} = FieldNames

\* C10: constructing a store never fails because of the file: a missing
\* file gives the empty list with no diagnostic, and content that is not a
\* valid sequence of five-field mappings (undecodable text, a value of
\* another shape, an entry with a missing or extra field) gives the
\* diagnostic and the empty list.
C10_ConstructionNeverFails ==
    last.op = "load"
        => /\ last.result = Loaded /\ pc = "running"
           /\ ~file.exists => (books = <<>> /\ ~last.diag)
           /\ (file.exists /\ ~ValidContent(file)) => (books = <<>> /\ last.diag)

---------------------------------------------------------------------------
(* Properties of search_book and show_all_books *)

\* two characters that are the same letter, whatever their case
SameLetter(c, d) == c = d \/ <<c, d>> \in LowerPairs \/ <<d, c>> \in LowerPairs

\* sub occurs in str at some offset, letter case ignored
OccursIgnoringCase(sub, str) ==
    \E off \in 0..(Len(str) - Len(sub)) :
        \A n \in 1..Len(sub) :
            SameLetter(SubSeq(sub, n, n), SubSeq(str, off + n, off + n))

\* C11: search_book returns exactly the stored records for which at least
\* one criterion occurs, letter case ignored, in at least one of the five
\* fields: the union over the criteria, each record once.
C11_SearchIsUnionOverCriteria ==
    last.op = "search"
        => last.found =
              {k \in DOMAIN books :
                  \E n \in DOMAIN last.criterion, name \in FieldNames :
                      OccursIgnoringCase(last.criterion[n], books[k][name])}

\* C11 witness: of three books the first matches one criterion by its
\* status in another letter case, the second the other criterion by its id,
\* the third matches none; the result is the first and the second
C11_Witness ==
    /\ last.op = "search" /\ last.criterion = <<"b", "VYD">>
    /\ Len(books) = 3
    /\ books[1].id = "a" /\ books[1].status = StatusIssued
    /\ books[2].id = "b" /\ books[2].status # StatusIssued
    /\ books[3].id = "a" /\ books[3].status # StatusIssued
    /\ last.found = {1, 2}

---------------------------------------------------------------------------
(* Properties of the identifiers and the statuses *)

Unique(bks) == \A j, k \in DOMAIN bks : bks[j].id = bks[k].id => j = k

Mutation == {"add", "delete", "change_status"}

\* C12 as stated: whatever add_book, delete_book and change_status calls
\* are made on a store whose records have distinct ids, no two records of
\* its list have the same id afterwards.
C12_IdsStayUnique ==
    [][(last'.op \in Mutation /\ Unique(books)) => Unique(books')]_vars

\* C12 amended: the same, provided every add_book is given a book whose id
\* no record of the list carries (add_book itself checks nothing).
C12_IdsStayUniqueWhenAddsAreFresh ==
    [][(/\ last'.op \in Mutation
        /\ Unique(books)
        /\ last'.op = "add" => ~Carries(books, last'.id))
        => Unique(books')]_vars

\* C12 witness: a book was added behind one with another id
C12_Witness ==
    /\ last.op = "add"
    /\ Len(books) = 2
    /\ books[1].id # books[2].id
    /\ books[2] = last.book

StatusesOf(bks) == {bks[k].status : k \in DOMAIN bks}

\* C13: from an empty store, through add_book of books built as main builds
\* them and through change_status, every record's status is one of two
\* values, the one a new book carries (which is also what token "1"
\* writes) and the issued one.
C13_TwoStatusValues ==
    [][(last'.op \in {"add", "change_status"} /\ StatusesOf(books) \subseteq {StatusNew, StatusIssued})
        => StatusesOf(books') \subseteq {StatusNew, StatusIssued}]_vars

\* C14: the scenario add, change_status(id, "2"), delete(id), reload, from
\* an empty store: after the add the list is the one added record, with an
\* id that is not empty; after change_status that record is issued, its
\* other fields as supplied; after delete the list is empty and so is the
\* file; the store constructed then is empty.
C14_Scenario ==
    [][/\ (Len(books) = 0 /\ last'.op = "add")
            => /\ books' = <<last'.book>>
               /\ books'[1].id # ""
               /\ books'[1].status = StatusNew
       /\ (last.op = "add" /\ Len(books) = 1
           /\ last'.op = "change_status" /\ last'.id = last.id /\ last'.token = "2")
            => /\ last'.result = MsgStatusChanged
               /\ books' = <<[last.book EXCEPT !.status = StatusIssued]>>
       /\ (prev.op = "add" /\ last.op = "change_status" /\ last.id = prev.id
           /\ Len(books) = 1
           /\ last'.op = "delete" /\ last'.id = last.id)
            => /\ last'.result = MsgDeleted
               /\ books' = <<>>
               /\ file'.exists /\ file'.type = "array" /\ file'.items = <<>>
       /\ (prev.op = "change_status" /\ last.op = "delete" /\ last.id = prev.id
           /\ last.result = MsgDeleted /\ books = <<>>
           /\ last'.op = "load")
            => /\ last'.result = Loaded
               /\ books' = <<>>]_vars

\* C14 witness: the store constructed after the delete that followed the
\* change of status is empty, on a file that holds an empty list
C14_Witness ==
    /\ prev.op = "delete" /\ prev.result = MsgDeleted
    /\ last.op = "load" /\ last.result = Loaded
    /\ books = <<>>
    /\ file.exists /\ file.type = "array" /\ file.items = <<>>

---------------------------------------------------------------------------
(* Properties of records that share an id, and frame properties *)

\* C15: add_book checks no id: adding a book whose id a stored record
\* carries succeeds and leaves both in the list; a later delete_book or
\* change_status with that id acts on the earliest record with the id only,
\* every later one staying in the list with its status as it was.
C15_DuplicateIdsFirstMatchOnly ==
    [][/\ (last'.op = "add" /\ Carries(books, last'.id))
            => /\ last'.result = MsgAdded
               /\ books' = books \o <<last'.book>>
       /\ (last'.op = "delete" /\ Carries(books, last'.id))
            => LET k == First(books, last'.id)
               IN  /\ Len(books') = Len(books) - 1
                   /\ \A j \in (k + 1)..Len(books) : books'[j - 1] = books[j]
       /\ (last'.op = "change_status" /\ Carries(books, last'.id))
            => LET k == First(books, last'.id)
               IN  /\ Len(books') = Len(books)
                   /\ books'[k].status = StatusFor(last'.token)
                   /\ \A j \in (k + 1)..Len(books) : books'[j] = books[j]]_vars

\* C15 witness: a book was added with the id of a stored one, then
\* change_status with that id gave the earlier one the available status and
\* left the later one as it was added
C15_Witness ==
    /\ prev.op = "add" /\ prev.id = last.id
    /\ last.op = "change_status" /\ last.token = "1" /\ last.result = MsgStatusChanged
    /\ Len(books) >= 2
    /\ books[1].id = last.id /\ books[1].status = StatusAvailable
    /\ books[Len(books)].id = last.id /\ books[Len(books)].status = StatusNew

IdsOf(bks) == [k \in DOMAIN bks |-> bks[k].id]

\* bks without its element k
Without(bks, k) == SubSeq(bks, 1, k - 1) \o SubSeq(bks, k + 1, Len(bks))

\* C16: change_status alters nothing but the status of the first record
\* with the id: the length and order of the list, every record's id,
\* title, author and year and the status of every other record are as
\* before; and no operation of the store changes the id of a record that
\* is in the list: the ids after a call are the ids before it, with the
\* added one behind them or the deleted one taken out.
C16_ChangeStatusFrame ==
    [][/\ last'.op = "change_status"
            => /\ Len(books') = Len(books)
               /\ \A k \in DOMAIN books :
                     /\ \A name \in FieldNames \ {"status"} : books'[k][name] = books[k][name]
                     /\ (~Carries(books, last'.id) \/ k # First(books, last'.id))
                            => books'[k].status = books[k].status
       /\ last'.op \in {"change_status", "search", "list"} => IdsOf(books') = IdsOf(books)
       /\ last'.op = "add" => IdsOf(books') = IdsOf(books) \o <<last'.id>>
       /\ last'.op = "delete"
            => \/ IdsOf(books') = IdsOf(books)
               \/ \E k \in DOMAIN books : IdsOf(books') = Without(IdsOf(books), k)]_vars

\* C16 witness: the status of the second of three books was changed; the
\* third has the same id and another status, the first another id
C16_Witness ==
    /\ last.op = "change_status" /\ last.result = MsgStatusChanged
    /\ Len(books) = 3
    /\ books[1].id # last.id
    /\ books[2].id = last.id /\ books[2].status = StatusFor(last.token)
    /\ books[3].id = last.id /\ books[3].status # books[2].status

\* a record without its status
Unchanging(book) == [name \in FieldNames \ {"status"} |-> book[name]]

\* C17: show_all_books returns the whole list, which holds the records
\* added and not deleted in the order of their add calls: an add puts its
\* record behind the others, a delete takes one record out and keeps the
\* others in their order, change_status keeps every record at its place,
\* and the list returned is the list in memory, nothing left out.
C17_ListIsInsertionOrder ==
    [][/\ last'.op = "add" => books' = books \o <<last'.book>>
       /\ last'.op = "delete"
            => \/ last'.result = MsgDeleteNotFound /\ books' = books
               \/ last'.result = MsgDeleted
                    /\ \E k \in DOMAIN books : books[k].id = last'.id /\ books' = Without(books, k)
       /\ last'.op = "change_status"
            => [k \in DOMAIN books' |-> Unchanging(books'[k])]
                   = [k \in DOMAIN books |-> Unchanging(books[k])]
       /\ last'.op = "list" => (last'.listed = books /\ books' = books)]_vars

\* C17 witness: after a delete that left two books with different titles,
\* show_all_books has returned these two in their order
C17_Witness ==
    /\ prev.op = "delete" /\ prev.result = MsgDeleted
    /\ last.op = "list"
    /\ Len(books) = 2 /\ books[1].title # books[2].title
    /\ last.listed = books

---------------------------------------------------------------------------
(* Properties of the file under calls that do not save *)

\* C18: a file whose content is malformed keeps that content through the
\* load and through every call that only reads or that fails; the first
\* add_book overwrites it, and the file then holds exactly the one added
\* record.
C18_MalformedFileKeptUntilFirstAdd ==
    [][(file.exists /\ ~ValidContent(file))
        => /\ last'.op # "add" => (file' = file /\ ~last'.saved)
           /\ last'.op = "add"
                => /\ books = <<>>
                   /\ FileHolds(file', <<last'.book>>)]_vars

\* C18 witness: the store was constructed on undecodable text (the
\* diagnostic was printed), and the add that followed has left the file
\* with the one added record
C18_Witness ==
    /\ prev.op = "load" /\ prev.diag
    /\ last.op = "add"
    /\ books = <<last.book>>
    /\ FileHolds(file, books)

\* C19: search_book and show_all_books only read: whatever the criteria
\* and whether or not a book matches, the list, every field of every record
\* and the file are after the call what they were before it.
C19_QueriesReadOnly ==
    [][last'.op \in {"search", "list"}
        => /\ books' = books
           /\ file' = file /\ ~last'.saved
           /\ pc' = pc]_vars

\* C19 witness: a search that matched nothing has returned on a store of
\* two books or more, right after another search
C19_Witness ==
    /\ prev.op = "search"
    /\ last.op = "search" /\ last.criterion # <<>> /\ last.found = {}
    /\ Len(books) >= 2
    /\ search_book(books, <<"">>) = DOMAIN books

\* C20: search_book with no criterion returns the empty set, and with the
\* empty string among its criteria it returns every record of the store,
\* whatever the other criteria are.
C20_EmptyCriteria ==
    last.op = "search"
        => /\ last.criterion = <<>> => last.found = {}
           /\ (\E n \in DOMAIN last.criterion : last.criterion[n] = "")
                => last.found = DOMAIN books

\* C20 witness: the criteria "zzz" and "" (what splitting "zzz, " gives)
\* have returned all three books, none of which contains "zzz"
C20_Witness ==
    /\ last.op = "search" /\ last.criterion = <<"zzz", "">>
    /\ Len(books) = 3
    /\ last.found = {1, 2, 3}
    /\ search_book(books, <<"zzz">>) = {}

=============================================================================
